---- MODULE Spec2Model ----
(***************************************************************************)
(* Habit tracker (SvelteKit + Tauri SQL plugin).                           *)
(*                                                                         *)
(* The store holds two tables, habits(id, name, streak) and                *)
(* master(id, habit_id, completed, date).  Two pages work on it: the today *)
(* page (routes/+page.svelte) and the history page                         *)
(* (routes/previous-days/+page.svelte).  Every handler is an async         *)
(* function: it runs synchronously up to its next `await db.select/        *)
(* execute`, is suspended there, and resumes when the store call returns.  *)
(* One action of this model is one store call together with the            *)
(* synchronous code that follows it up to the next await.  Nothing in the  *)
(* pages disables a control while a handler is suspended, so handlers      *)
(* interleave at their awaits.                                             *)
(*                                                                         *)
(* Following a link mounts the other page anew; the handlers of the page   *)
(* that was left stay suspended on their store calls and go on, writing to *)
(* the store and to the arrays of the component that was left.             *)
(*                                                                         *)
(* Scope of the model: a run starts on the today page with an empty store  *)
(* (the tables exist) and has at most MaxOps events; the debug reads of    *)
(* printTables, which change nothing, are left out.                        *)
(***************************************************************************)
EXTENDS Integers, Sequences, FiniteSets, Bags, TLC

(* ---- bounds ---- *)
MaxOps == 4          \* events of one run: handler calls, page changes, midnights
MaxDay == 2          \* calendar days 1..MaxDay
MaxInflight == 2     \* handlers suspended on a store call at the same time
TicksPerDay == 2     \* instants of a day a timestamp distinguishes

VARIABLES
  habitsTbl,      \* rows of table habits: set of [id, name, streak]
  habitSeq,       \* sqlite_sequence of habits: largest id ever handed out
  master,         \* rows of table master: set of [id, habit_id, completed, date]
  masterSeq,      \* sqlite_sequence of master
  now,            \* the instant the wall clock reads (UTC), in ticks
  db,             \* the mounted page: let db has been assigned
  page,           \* the mounted page: "today" or "history"
  habits,         \* today page: let habits: Habit[]
  habitsForDate,  \* history page: let habitsForDate: Habit[]
  selectedDate,   \* history page: let selectedDate
  newHabitName,   \* today page: let newHabitName, bound to the name input
  procs,          \* bag of suspended handler invocations
  deadViews,      \* the arrays of left pages that suspended handlers still use
  started,        \* number of events so far (handler calls, page changes, midnights)
  assignedIds,    \* history: every id a habit row was ever created with
  deletedIds,     \* history: ids whose deleteHabit ran to its end
  inlineTbl,      \* inline-completion variant: rows of its table habits
  inlineSeq,      \* inline-completion variant: sqlite_sequence of habits
  inlineHabits    \* inline-completion variant: let habits: Habit[]

vars == <<habitsTbl, habitSeq, master, masterSeq, now, db, page, habits,
          habitsForDate, selectedDate, newHabitName, procs, deadViews, started,
          assignedIds, deletedIds, inlineTbl, inlineSeq, inlineHabits>>

storeVars == <<habitsTbl, habitSeq, master, masterSeq>>
viewVars == <<habits, habitsForDate, selectedDate>>
inlineVars == <<inlineTbl, inlineSeq, inlineHabits>>

Days == 1..MaxDay
(* The value of a cleared date input: the empty string. *)
NoDate == 0
(* What the date input can deliver. *)
DateInputs == Days \cup { NoDate }

(* ---- values ---- *)
NoId == 0            \* habit.id of an entry built from `...undefined`; also "no record"
NoRow == -1          \* streak of a habit that has no row in table habits
Blank == " "
NameInputs == { <<>>, <<Blank>>, <<"a">>, <<Blank, "a", Blank>> }

(* An array hole, left by an assignment past the end of the array. *)
Hole == [id |-> -1, name |-> <<>>, streak |-> 0, completed |-> FALSE]

(* ---- dates ---- *)
(* new Date().toISOString(): the instant the clock reads; midnight of day d is
   tick d * TicksPerDay. *)
NowISO == now
(* new Date("YYYY-MM-DD").toISOString(): midnight UTC of that day. *)
MidnightISO(d) == d * TicksPerDay
(* iso.split("T")[0] *)
DatePrefix(iso) == iso \div TicksPerDay
(* date LIKE '<prefix>%': with the empty prefix the pattern is '%', which every
   date matches. *)
Like(date, prefix) == prefix = NoDate \/ DatePrefix(date) = prefix

(* ---- String.prototype.trim ---- *)
RECURSIVE TrimStart(_)
TrimStart(s) == IF s # <<>> /\ Head(s) = Blank THEN TrimStart(Tail(s)) ELSE s
RECURSIVE TrimEnd(_)
TrimEnd(s) ==
  IF s # <<>> /\ s[Len(s)] = Blank THEN TrimEnd(SubSeq(s, 1, Len(s) - 1)) ELSE s
TrimNone(s) == s
Trim(s) == TrimEnd(TrimStart(s))

(* ---- the store ---- *)
MinId(S) == CHOOSE r \in S : \A q \in S : r.id <= q.id
(* Rows of a table in rowid order. *)
RECURSIVE InRowidOrder(_)
InRowidOrder(S) ==
  IF S = {} THEN <<>> ELSE <<MinId(S)>> \o InRowidOrder(S \ {MinId(S)})

HasRow(tbl, id) == \E r \in tbl : r.id = id
(* The streak column of habit id in table tbl *)
StoredStreak(tbl, id) ==
  IF HasRow(tbl, id) THEN (CHOOSE r \in tbl : r.id = id).streak ELSE NoRow

(* id of the next habit row: without AUTOINCREMENT it is max(rowid) + 1. *)
NextHabitIdReuse ==
  IF habitsTbl = {} THEN 1
  ELSE (CHOOSE r \in habitsTbl : \A q \in habitsTbl : q.id <= r.id).id + 1
(* INTEGER PRIMARY KEY AUTOINCREMENT: one more than the largest id ever used. *)
NextHabitId == habitSeq + 1
NextMasterId == masterSeq + 1

(* SELECT * FROM master WHERE habit_id = $1 AND date LIKE $2 LIMIT 1, on table mst *)
MasterOfDay(mst, id, prefix) ==
  { m \in mst : m.habit_id = id /\ Like(m.date, prefix) }
SelectMasterRecord(mst, id, prefix) ==
  IF MasterOfDay(mst, id, prefix) = {} THEN NoId ELSE MinId(MasterOfDay(mst, id, prefix)).id
(* Boolean(masterRecords[0].completed) *)
CurrentStatus(mst, rec) == (CHOOSE m \in mst : m.id = rec).completed

(* UPDATE master SET completed = $1, date = $2 WHERE id = $3 *)
UpdateMaster(mst, rec, completed, date) ==
  { IF m.id = rec THEN [m EXCEPT !.completed = completed, !.date = date] ELSE m
      : m \in mst }
(* INSERT INTO master (habit_id, completed, date) VALUES ($1, 1, $3) *)
InsertMaster(mst, newId, id, date) ==
  mst \cup { [id |-> newId, habit_id |-> id, completed |-> TRUE, date |-> date] }
UpdateStreakAll(tbl, id, streak) == { [r EXCEPT !.streak = streak] : r \in tbl }
(* UPDATE habits SET streak = $1 WHERE id = $2 *)
UpdateStreak(tbl, id, streak) ==
  { IF r.id = id THEN [r EXCEPT !.streak = streak] ELSE r : r \in tbl }

(* ---- the views ---- *)
(* habits.findIndex((h) => h.id == id); 0 stands for -1.  Reading h.id of a hole throws. *)
Matches(view, id) == { i \in 1..Len(view) : view[i] # Hole /\ view[i].id = id }
HoleBefore(view, i) == \E j \in 1..(i - 1) : view[j] = Hole
FindIndex(view, id) ==
  IF Matches(view, id) = {} THEN 0
  ELSE CHOOSE i \in Matches(view, id) : \A j \in Matches(view, id) : i <= j

Defined(view, i) == i \in 1..Len(view) /\ view[i] # Hole

(* view[i] = {...view[i], completed, streak}: spreading undefined gives no id, no name *)
SetEntry(view, i, completed, streak) ==
  LET old == IF Defined(view, i) THEN view[i]
             ELSE [id |-> NoId, name |-> <<>>, streak |-> 0, completed |-> FALSE]
      new == [old EXCEPT !.completed = completed, !.streak = streak]
  IN [j \in 1..(IF i > Len(view) THEN i ELSE Len(view)) |->
        IF j = i THEN new ELSE IF j <= Len(view) THEN view[j] ELSE Hole]

(* habits.filter((habit) => habit.id !== id): holes are skipped by filter *)
RECURSIVE FilterOut(_, _)
FilterOut(view, id) ==
  IF view = <<>> THEN <<>>
  ELSE IF Head(view) = Hole \/ Head(view).id = id THEN FilterOut(Tail(view), id)
       ELSE <<Head(view)>> \o FilterOut(Tail(view), id)

(* getHabits / getHabitsForDate: habitRows.map(row => ...) over the master rows of a day *)
MapHabits(habitRows, masterRows) ==
  [i \in 1..Len(habitRows) |->
     LET row == habitRows[i]
         mine == { m \in masterRows : m.habit_id = row.id }
     IN [id |-> row.id, name |-> row.name, streak |-> row.streak,
         completed |-> IF mine = {} THEN FALSE ELSE MinId(mine).completed]]
(* SELECT * FROM master WHERE date LIKE $1 *)
MasterRowsLike(mst, prefix) == { m \in mst : Like(m.date, prefix) }
GetHabitsForDate(tbl, mst, prefix) ==
  MapHabits(InRowidOrder(tbl), MasterRowsLike(mst, prefix))

(* ---- the streak rule ---- *)
NewStreakNoDecrement(streak, updatedCompleted) ==
  IF updatedCompleted THEN streak + 1 ELSE streak
NewStreakNoFloor(streak, updatedCompleted) ==
  IF updatedCompleted THEN streak + 1 ELSE streak - 1
NewStreak(streak, updatedCompleted) ==
  IF updatedCompleted THEN streak + 1
  ELSE IF streak - 1 > 0 THEN streak - 1 ELSE 0

(* ---- suspended handlers ---- *)
Proc(op, pg, pc, id) ==
  [op |-> op, page |-> pg, pc |-> pc, id |-> id, habitIndex |-> 0,
   currentDate |-> 0, datePrefix |-> 0, rec |-> NoId, updatedCompleted |-> FALSE,
   newStreak |-> 0, name |-> <<>>, habitRows |-> <<>>, startStreak |-> NoRow,
   home |-> 0]

(* p.home = Mounted: the handler belongs to the mounted page; otherwise p.home
   names, in deadViews, the array of the page it was called on. *)
Mounted == 0

Inflight == BagToSet(procs)
Room == BagCardinality(procs) < MaxInflight /\ started < MaxOps
Keep == UNCHANGED started
(* The arrays of left pages that the handlers in bag rest still hold. *)
DeadAfter(dv, rest) ==
  [k \in { h \in DOMAIN dv : \E q \in BagToSet(rest) : q.home = h } |-> dv[k]]
Spawn(p) ==
  procs' = procs (+) SetToBag({p}) /\ started' = started + 1 /\ UNCHANGED deadViews
Resume(p, q) ==
  procs' = (procs (-) SetToBag({p})) (+) SetToBag({q}) /\ Keep /\ UNCHANGED deadViews
(* The handler ends, the arrays of left pages being dv. *)
FinishWith(p, dv) ==
  /\ procs' = procs (-) SetToBag({p})
  /\ deadViews' = DeadAfter(dv, procs (-) SetToBag({p}))
  /\ Keep
Finish(p) == FinishWith(p, deadViews)

View(pg) == IF pg = "today" THEN habits ELSE habitsForDate
SetView(pg, v) ==
  IF pg = "today" THEN habits' = v /\ UNCHANGED <<habitsForDate, selectedDate>>
  ELSE habitsForDate' = v /\ UNCHANGED <<habits, selectedDate>>

(* The array that handler p reads and writes: that of the component it was
   called on. *)
ViewOf(p) == IF p.home = Mounted THEN View(p.page) ELSE deadViews[p.home]
(* The handler assigns v to its array and ends. *)
AssignAndFinish(p, v) ==
  IF p.home = Mounted
    THEN SetView(p.page, v) /\ Finish(p)
    ELSE UNCHANGED viewVars /\ FinishWith(p, [deadViews EXCEPT ![p.home] = v])

Init ==
  /\ habitsTbl = {} /\ habitSeq = 0
  /\ master = {} /\ masterSeq = 0
  /\ now = MidnightISO(1) /\ db = FALSE
  /\ page = "today"
  /\ habits = <<>> /\ habitsForDate = <<>> /\ selectedDate = 1
  /\ newHabitName = <<>>
  /\ procs = SetToBag({Proc("mount", "today", "load", NoId)})
  /\ deadViews = <<>>
  /\ started = 0
  /\ assignedIds = {} /\ deletedIds = {}
  /\ inlineTbl = {} /\ inlineSeq = 0 /\ inlineHabits = <<>>


(* ---- toggleHabit (both pages) ---- *)
(* The rows a page renders: one per defined entry of its array. *)
Rendered(view) == { view[i].id : i \in { j \in 1..Len(view) : view[j] # Hole } }

(* Synchronous head of toggleHabit: findIndex, early return, the dates, then the
   SELECT is issued. *)
BeginToggle(pg, id, currentDate, prefix) ==
  /\ page = pg
  /\ Room
  /\ id \in Rendered(View(pg))
  /\ FindIndex(View(pg), id) # 0
  /\ ~HoleBefore(View(pg), FindIndex(View(pg), id))
  /\ Spawn([Proc("toggle", pg, "select", id) EXCEPT
              !.habitIndex = FindIndex(View(pg), id),
              !.currentDate = currentDate,
              !.datePrefix = prefix,
              !.startStreak = StoredStreak(habitsTbl, id)])
  /\ UNCHANGED <<storeVars, now, db, page, viewVars, assignedIds, deletedIds, newHabitName, inlineVars>>

ToggleToday(id) == BeginToggle("today", id, NowISO, DatePrefix(NowISO))
(* With the date input cleared, new Date("").toISOString() throws a RangeError
   after findIndex and before any store call. *)
ToggleHistory(id) ==
  IF selectedDate = NoDate
    THEN /\ page = "history"
         /\ started < MaxOps
         /\ id \in Rendered(habitsForDate)
         /\ FindIndex(habitsForDate, id) # 0
         /\ ~HoleBefore(habitsForDate, FindIndex(habitsForDate, id))
         /\ started' = started + 1
         /\ UNCHANGED <<storeVars, now, db, page, viewVars, procs, deadViews, assignedIds,
                        deletedIds, newHabitName, inlineVars>>
    ELSE BeginToggle("history", id, MidnightISO(selectedDate), selectedDate)

(* The SELECT returns: updatedCompleted is decided and the master write is issued. *)
ToggleSelect(p) ==
  /\ p.op = "toggle" /\ p.pc = "select"
  /\ LET rec == SelectMasterRecord(master, p.id, p.datePrefix)
     IN Resume(p, [p EXCEPT !.pc = "write", !.rec = rec,
                            !.updatedCompleted =
                               IF rec = NoId THEN TRUE ELSE ~CurrentStatus(master, rec)])
  /\ UNCHANGED <<storeVars, now, db, page, viewVars, assignedIds, deletedIds, newHabitName, inlineVars>>

(* The master write returns; the old streak is read from the page's array (a
   TypeError ends the handler when the entry is gone) and the streak UPDATE is issued. *)
ToggleWriteMaster(p) ==
  /\ p.op = "toggle" /\ p.pc = "write"
  /\ IF p.rec # NoId
       THEN /\ master' = UpdateMaster(master, p.rec, p.updatedCompleted, p.currentDate)
            /\ UNCHANGED masterSeq
       ELSE /\ p.id # NoId                 \* habit_id NOT NULL
            /\ master' = InsertMaster(master, NextMasterId, p.id, p.currentDate)
            /\ masterSeq' = NextMasterId
  /\ IF Defined(ViewOf(p), p.habitIndex)
       THEN Resume(p, [p EXCEPT !.pc = "streak", !.newStreak =
              NewStreak(ViewOf(p)[p.habitIndex].streak, p.updatedCompleted)])
       ELSE Finish(p)
  /\ UNCHANGED <<habitsTbl, habitSeq, now, db, page, viewVars, assignedIds, deletedIds, newHabitName, inlineVars>>

(* The streak UPDATE returns and the entry of the array is replaced. *)
ToggleWriteStreak(p) ==
  /\ p.op = "toggle" /\ p.pc = "streak"
  /\ habitsTbl' = UpdateStreak(habitsTbl, p.id, p.newStreak)
  /\ AssignAndFinish(p, SetEntry(ViewOf(p), p.habitIndex, p.updatedCompleted, p.newStreak))
  /\ UNCHANGED <<habitSeq, master, masterSeq, now, db, page, assignedIds, deletedIds, newHabitName, inlineVars>>

(* ---- addHabit (today page) ---- *)
(* The input holds n when addHabit is called. *)
AddHabit(n) ==
  /\ page = "today"
  /\ Room
  /\ Trim(n) # <<>>
  /\ db
  /\ newHabitName' = n
  /\ Spawn([Proc("add", "today", "insert", NoId) EXCEPT !.name = Trim(n)])
  /\ UNCHANGED <<storeVars, now, db, page, viewVars, assignedIds, deletedIds, inlineVars>>

(* if (!newHabitName.trim()) return; *)
AddHabitRejected(n) ==
  /\ page \in {"today", "inline"}
  /\ started < MaxOps
  /\ Trim(n) = <<>>
  /\ newHabitName' = n
  /\ started' = started + 1
  /\ UNCHANGED <<storeVars, now, db, page, viewVars, procs, deadViews, assignedIds,
                 deletedIds, inlineVars>>

(* addHabit while db is still undefined: db.execute throws a TypeError before
   any store call (the today page catches and logs it). *)
AddHabitNoDb(n) ==
  /\ page \in {"today", "inline"}
  /\ started < MaxOps
  /\ Trim(n) # <<>>
  /\ ~db
  /\ newHabitName' = n
  /\ started' = started + 1
  /\ UNCHANGED <<storeVars, now, db, page, viewVars, procs, deadViews, assignedIds,
                 deletedIds, inlineVars>>

(* INSERT INTO habits (name, streak) VALUES ($1, 0), then getHabits is called. *)
AddInsert(p) ==
  /\ p.op = "add" /\ p.pc = "insert"
  /\ habitsTbl' = habitsTbl \cup { [id |-> NextHabitId, name |-> p.name, streak |-> 0] }
  /\ habitSeq' = NextHabitId
  /\ assignedIds' = assignedIds \cup { NextHabitId }
  /\ Resume(p, [p EXCEPT !.pc = "selHabits", !.id = NextHabitId])
  /\ UNCHANGED <<master, masterSeq, now, db, page, viewVars, deletedIds, newHabitName, inlineVars>>

(* ---- getHabits / getHabitsForDate ---- *)
(* SELECT * FROM habits returns; the today page reads the clock only now. *)
SelectHabits(p) ==
  /\ p.pc = "selHabits"
  /\ Resume(p, [p EXCEPT !.pc = "selMaster",
                         !.habitRows = InRowidOrder(habitsTbl),
                         !.datePrefix = IF p.page = "today" THEN DatePrefix(NowISO)
                                        ELSE p.datePrefix])
  /\ UNCHANGED <<storeVars, now, db, page, viewVars, assignedIds, deletedIds, newHabitName, inlineVars>>

(* SELECT * FROM master WHERE date LIKE returns; the rows are merged and the
   result is assigned to the page's array. *)
SelectMaster(p) ==
  /\ p.pc = "selMaster"
  /\ AssignAndFinish(p, MapHabits(p.habitRows, MasterRowsLike(master, p.datePrefix)))
  /\ newHabitName' = IF p.op = "add" /\ p.home = Mounted THEN <<>> ELSE newHabitName
  /\ UNCHANGED <<storeVars, now, db, page, assignedIds, deletedIds, inlineVars>>

(* ---- deleteHabit (today page) ---- *)
DeleteHabit(id) ==
  /\ page = "today"
  /\ Room
  /\ id \in Rendered(habits)
  /\ Spawn(Proc("delete", "today", "delHabit", id))
  /\ UNCHANGED <<storeVars, now, db, page, viewVars, assignedIds, deletedIds, newHabitName, inlineVars>>

(* DELETE FROM habits WHERE id = $1 *)
DeleteHabitRow(p) ==
  /\ p.op = "delete" /\ p.pc = "delHabit"
  /\ habitsTbl' = { r \in habitsTbl : r.id # p.id }
  /\ Resume(p, [p EXCEPT !.pc = "delMaster"])
  /\ UNCHANGED <<habitSeq, master, masterSeq, now, db, page, viewVars, assignedIds, deletedIds, newHabitName, inlineVars>>

(* DELETE FROM master WHERE habit_id = $1, then the array is filtered. *)
DeleteMasterRows(p) ==
  /\ p.op = "delete" /\ p.pc = "delMaster"
  /\ master' = { m \in master : m.habit_id # p.id }
  /\ AssignAndFinish(p, FilterOut(ViewOf(p), p.id))
  /\ deletedIds' = deletedIds \cup { p.id }
  /\ UNCHANGED <<habitsTbl, habitSeq, masterSeq, now, db, page, assignedIds, newHabitName,
                 inlineVars>>

(* ---- history page: handleDateChange ---- *)
(* selectedDate = input.value; fetchHabits() is not awaited and returns at once
   while db is undefined. *)
HandleDateChange(d) ==
  /\ page = "history"
  /\ d # selectedDate
  /\ selectedDate' = d
  /\ IF db
       THEN /\ Room
            /\ Spawn([Proc("fetch", "history", "selHabits", NoId) EXCEPT !.datePrefix = d])
       ELSE /\ started < MaxOps
            /\ started' = started + 1
            /\ UNCHANGED <<procs, deadViews>>
  /\ UNCHANGED <<storeVars, now, db, page, habits, habitsForDate, assignedIds, deletedIds, newHabitName, inlineVars>>

(* ---- the environment ---- *)
(* A store call rejects: the handler ends there (toggleHabit has no catch;
   addHabit and deleteHabit log the error). *)
StoreFails(p) ==
  /\ Finish(p)
  /\ UNCHANGED <<storeVars, now, db, page, viewVars, assignedIds, deletedIds, newHabitName, inlineVars>>

(* Following the link to the other page (the History link, the Back button):
   a new component is built, with its own arrays and db, and its onMount starts
   initDatabase.  The handlers of the page that was left stay suspended. *)
Navigate ==
  /\ Room
  /\ started' = started + 1
  /\ page' = IF page = "today" THEN "history" ELSE "today"
  /\ habits' = <<>> /\ habitsForDate' = <<>>
  /\ selectedDate' = DatePrefix(NowISO)
  /\ newHabitName' = <<>>
  /\ db' = FALSE
  /\ LET k == CHOOSE i \in 1..(BagCardinality(procs) + 1) :
                 i \notin DOMAIN deadViews /\ \A j \in 1..(i - 1) : j \in DOMAIN deadViews
         Detach(p) ==
           IF p.home # Mounted THEN p
           ELSE [p EXCEPT !.home = k,
                          !.datePrefix = IF p.op = "mount" /\ p.page = "history"
                                         THEN selectedDate ELSE @]
         left == [q \in { Detach(p) : p \in Inflight } |->
                    procs[CHOOSE p \in Inflight : Detach(p) = q]]
     IN /\ procs' = left (+) SetToBag({Proc("mount", page', "load", NoId)})
        /\ deadViews' = IF \E p \in Inflight : p.home = Mounted
                          THEN (k :> View(page)) @@ deadViews
                          ELSE deadViews
  /\ UNCHANGED <<storeVars, now, assignedIds, deletedIds, inlineVars>>

(* onMount: db = await Database.load(...) assigns the page's db; then the two
   CREATE TABLE IF NOT EXISTS return; then getHabits / fetchHabits issues its
   first SELECT, the history page reading selectedDate only now. *)
InitDatabase(p) ==
  /\ p.op = "mount"
  /\ db' = IF p.pc = "load" /\ p.home = Mounted THEN TRUE ELSE db
  /\ Resume(p, IF p.pc = "load" THEN [p EXCEPT !.pc = "createHabits"]
               ELSE IF p.pc = "createHabits" THEN [p EXCEPT !.pc = "createMaster"]
               ELSE [p EXCEPT !.op = "fetch", !.pc = "selHabits",
                              !.datePrefix = IF p.home = Mounted /\ p.page = "history"
                                             THEN selectedDate ELSE @])
  /\ UNCHANGED <<storeVars, now, page, viewVars, assignedIds, deletedIds, newHabitName,
                 inlineVars>>

(* The instants of the days of the model. *)
Instants == MidnightISO(1)..(MidnightISO(MaxDay + 1) - 1)

(* Time passes: the clock reads a later instant t. *)
ClockAdvances(t) ==
  /\ t > now
  /\ started < MaxOps
  /\ now' = t
  /\ started' = started + 1
  /\ UNCHANGED <<storeVars, db, page, viewVars, procs, deadViews, assignedIds, deletedIds,
                 newHabitName, inlineVars>>

(* ---- the inline-completion variant of the today page ---- *)
(* Its table is habits(id, name, completed, last_updated, streak); streak has no
   default, so addHabit leaves it NULL. *)
Null == -1
(* habit.streak + 1 in JavaScript: null + 1 is 1 *)
PlusOne(streak) == IF streak = Null THEN 1 ELSE streak + 1

(* getHabits of the variant: rows.map(row => ...) *)
InlineMap(rows) ==
  [i \in 1..Len(rows) |->
     [id |-> rows[i].id, name |-> rows[i].name, completed |-> rows[i].completed,
      createdAt |-> rows[i].last_updated, streak |-> rows[i].streak]]

InlineRendered == { inlineHabits[i].id : i \in 1..Len(inlineHabits) }
InlineEntry(id) ==
  inlineHabits[CHOOSE i \in 1..Len(inlineHabits) : inlineHabits[i].id = id]

(* toggleHabit of the variant: habits = habits.map(...) flips the entry at once and
   fires the UPDATE without awaiting it. *)
InlineToggle(id) ==
  /\ page = "inline"
  /\ Room
  /\ id \in InlineRendered
  /\ inlineHabits' = [i \in 1..Len(inlineHabits) |->
                        IF inlineHabits[i].id = id
                          THEN [inlineHabits[i] EXCEPT !.completed = ~@]
                          ELSE inlineHabits[i]]
  /\ Spawn([Proc("inlineWrite", "inline", "update", id) EXCEPT
              !.updatedCompleted = ~InlineEntry(id).completed,
              !.currentDate = NowISO,
              !.newStreak = PlusOne(InlineEntry(id).streak)])
  /\ UNCHANGED <<storeVars, now, db, page, viewVars, assignedIds, deletedIds, newHabitName,
                 inlineTbl, inlineSeq>>

(* UPDATE habits SET completed = $1, last_updated = $2, streak = $3 WHERE id = $4 *)
InlineWrite(p) ==
  /\ p.op = "inlineWrite"
  /\ inlineTbl' = { IF r.id = p.id
                      THEN [r EXCEPT !.completed = p.updatedCompleted,
                                     !.last_updated = p.currentDate,
                                     !.streak = p.newStreak]
                      ELSE r : r \in inlineTbl }
  /\ Finish(p)
  /\ UNCHANGED <<storeVars, now, db, page, viewVars, assignedIds, deletedIds, newHabitName,
                 inlineSeq, inlineHabits>>

InlineAddHabit(n) ==
  /\ page = "inline"
  /\ Room
  /\ Trim(n) # <<>>
  /\ db
  /\ newHabitName' = n
  /\ Spawn([Proc("inlineAdd", "inline", "insert", NoId) EXCEPT
              !.name = Trim(n), !.currentDate = NowISO])
  /\ UNCHANGED <<storeVars, now, db, page, viewVars, assignedIds, deletedIds, inlineVars>>

(* INSERT INTO habits (name, completed, last_updated) VALUES ($1, 0, $3) *)
InlineAddInsert(p) ==
  /\ p.op = "inlineAdd" /\ p.pc = "insert"
  /\ inlineTbl' = inlineTbl \cup
       { [id |-> inlineSeq + 1, name |-> p.name, completed |-> FALSE,
          last_updated |-> p.currentDate, streak |-> Null] }
  /\ inlineSeq' = inlineSeq + 1
  /\ Resume(p, [p EXCEPT !.pc = "select", !.id = inlineSeq + 1])
  /\ UNCHANGED <<storeVars, now, db, page, viewVars, assignedIds, deletedIds, newHabitName, inlineHabits>>

(* SELECT * FROM habits returns and habits is assigned. *)
InlineSelect(p) ==
  /\ p.op \in {"inlineAdd", "inlineFetch"} /\ p.pc = "select"
  /\ inlineHabits' = InlineMap(InRowidOrder(inlineTbl))
  /\ newHabitName' = IF p.op = "inlineAdd" THEN <<>> ELSE newHabitName
  /\ Finish(p)
  /\ UNCHANGED <<storeVars, now, db, page, viewVars, assignedIds, deletedIds,
                 inlineTbl, inlineSeq>>

InlineDeleteHabit(id) ==
  /\ page = "inline"
  /\ Room
  /\ id \in InlineRendered
  /\ Spawn(Proc("inlineDelete", "inline", "delete", id))
  /\ UNCHANGED <<storeVars, now, db, page, viewVars, assignedIds, deletedIds, newHabitName, inlineVars>>

(* DELETE FROM habits WHERE id = $1, then habits.filter *)
InlineDeleteRow(p) ==
  /\ p.op = "inlineDelete"
  /\ inlineTbl' = { r \in inlineTbl : r.id # p.id }
  /\ inlineHabits' = SelectSeq(inlineHabits, LAMBDA h : h.id # p.id)
  /\ Finish(p)
  /\ UNCHANGED <<storeVars, now, db, page, viewVars, assignedIds, deletedIds, newHabitName, inlineSeq>>

(* onMount of the variant: Database.load and one CREATE TABLE return, then db is
   assigned and getHabits issues its SELECT. *)
InlineInitDatabase(p) ==
  /\ p.op = "inlineMount"
  /\ db' = (p.pc = "create" \/ db)
  /\ Resume(p, IF p.pc = "load" THEN [p EXCEPT !.pc = "create"]
               ELSE [p EXCEPT !.op = "inlineFetch", !.pc = "select"])
  /\ UNCHANGED <<storeVars, now, page, viewVars, assignedIds, deletedIds, newHabitName,
                 inlineVars>>

InitInline ==
  /\ habitsTbl = {} /\ habitSeq = 0
  /\ master = {} /\ masterSeq = 0
  /\ now = MidnightISO(1) /\ db = FALSE
  /\ page = "inline"
  /\ habits = <<>> /\ habitsForDate = <<>> /\ selectedDate = 1
  /\ newHabitName = <<>>
  /\ procs = SetToBag({Proc("inlineMount", "inline", "load", NoId)})
  /\ deadViews = <<>>
  /\ started = 0
  /\ assignedIds = {} /\ deletedIds = {}
  /\ inlineTbl = {} /\ inlineSeq = 0 /\ inlineHabits = <<>>

HabitIds == 0..MaxOps

Next ==
  \/ \E id \in HabitIds : ToggleToday(id)
  \/ \E id \in HabitIds : ToggleHistory(id)
  \/ \E n \in NameInputs : AddHabit(n)
  \/ \E n \in NameInputs : AddHabitRejected(n)
  \/ \E n \in NameInputs : AddHabitNoDb(n)
  \/ \E id \in HabitIds : DeleteHabit(id)
  \/ \E d \in DateInputs : HandleDateChange(d)
  \/ \E p \in Inflight : InitDatabase(p)
  \/ \E p \in Inflight : ToggleSelect(p)
  \/ \E p \in Inflight : ToggleWriteMaster(p)
  \/ \E p \in Inflight : ToggleWriteStreak(p)
  \/ \E p \in Inflight : AddInsert(p)
  \/ \E p \in Inflight : SelectHabits(p)
  \/ \E p \in Inflight : SelectMaster(p)
  \/ \E p \in Inflight : DeleteHabitRow(p)
  \/ \E p \in Inflight : DeleteMasterRows(p)
  \/ \E p \in Inflight : StoreFails(p)
  \/ Navigate
  \/ \E t \in Instants : ClockAdvances(t)

Spec == Init /\ [][Next]_vars

NextInline ==
  \/ \E id \in HabitIds : InlineToggle(id)
  \/ \E n \in NameInputs : InlineAddHabit(n)
  \/ \E n \in NameInputs : AddHabitRejected(n)
  \/ \E n \in NameInputs : AddHabitNoDb(n)
  \/ \E id \in HabitIds : InlineDeleteHabit(id)
  \/ \E p \in Inflight : InlineInitDatabase(p)
  \/ \E p \in Inflight : InlineWrite(p)
  \/ \E p \in Inflight : InlineAddInsert(p)
  \/ \E p \in Inflight : InlineSelect(p)
  \/ \E p \in Inflight : InlineDeleteRow(p)
  \/ \E p \in Inflight : StoreFails(p)
  \/ \E t \in Instants : ClockAdvances(t)

SpecInline == InitInline /\ [][NextInline]_vars

(* ---- operations run one at a time ---- *)
(* No handler is suspended: the user waits for an operation to end before the
   next one is started. *)
Idle == procs = EmptyBag

NextSeq ==
  \/ Idle /\ \E id \in HabitIds : ToggleToday(id)
  \/ Idle /\ \E id \in HabitIds : ToggleHistory(id)
  \/ Idle /\ \E n \in NameInputs : AddHabit(n)
  \/ Idle /\ \E n \in NameInputs : AddHabitRejected(n)
  \/ Idle /\ \E n \in NameInputs : AddHabitNoDb(n)
  \/ Idle /\ \E id \in HabitIds : DeleteHabit(id)
  \/ Idle /\ \E d \in DateInputs : HandleDateChange(d)
  \/ \E p \in Inflight : InitDatabase(p)
  \/ \E p \in Inflight : ToggleSelect(p)
  \/ \E p \in Inflight : ToggleWriteMaster(p)
  \/ \E p \in Inflight : ToggleWriteStreak(p)
  \/ \E p \in Inflight : AddInsert(p)
  \/ \E p \in Inflight : SelectHabits(p)
  \/ \E p \in Inflight : SelectMaster(p)
  \/ \E p \in Inflight : DeleteHabitRow(p)
  \/ \E p \in Inflight : DeleteMasterRows(p)
  \/ \E p \in Inflight : StoreFails(p)
  \/ Idle /\ Navigate
  \/ \E t \in Instants : ClockAdvances(t)

(* One at a time, store calls may fail. *)
SpecSeq == Init /\ [][NextSeq]_vars

(* One at a time, no store call fails. *)
NextSeqOk ==
  \/ Idle /\ \E id \in HabitIds : ToggleToday(id)
  \/ Idle /\ \E id \in HabitIds : ToggleHistory(id)
  \/ Idle /\ \E n \in NameInputs : AddHabit(n)
  \/ Idle /\ \E n \in NameInputs : AddHabitRejected(n)
  \/ Idle /\ \E id \in HabitIds : DeleteHabit(id)
  \/ Idle /\ \E d \in DateInputs : HandleDateChange(d)
  \/ \E p \in Inflight : InitDatabase(p)
  \/ \E p \in Inflight : ToggleSelect(p)
  \/ \E p \in Inflight : ToggleWriteMaster(p)
  \/ \E p \in Inflight : ToggleWriteStreak(p)
  \/ \E p \in Inflight : AddInsert(p)
  \/ \E p \in Inflight : SelectHabits(p)
  \/ \E p \in Inflight : SelectMaster(p)
  \/ \E p \in Inflight : DeleteHabitRow(p)
  \/ \E p \in Inflight : DeleteMasterRows(p)
  \/ Idle /\ Navigate
  \/ \E t \in Instants : ClockAdvances(t)

SpecSeqOk == Init /\ [][NextSeqOk]_vars

(* ======================= properties ======================= *)

Entries(view) == { view[i] : i \in { j \in 1..Len(view) : view[j] # Hole } }

(* C1: the streak stored for every habit and the streak held in either page's
   array for every habit is an integer >= 0, in every reachable state. *)
C1_StreakNonNegative ==
  /\ \A r \in habitsTbl : r.streak \in Nat
  /\ \A e \in Entries(habits) \cup Entries(habitsForDate) : e.streak \in Nat

(* A toggle-to-incomplete found streak 0 in the array and wrote 0: the floor acted. *)
C1_Witness ==
  \E p \in Inflight :
    /\ p.op = "toggle" /\ p.pc = "streak"
    /\ ~p.updatedCompleted /\ p.newStreak = 0
    /\ Defined(ViewOf(p), p.habitIndex)
    /\ ViewOf(p)[p.habitIndex].streak = 0

(* One toggleHabit call run from its first line to its last, no other handler in
   between, on store and array st. *)
RunToggle(st, id, currentDate, prefix) ==
  LET idx == FindIndex(st.view, id)
      rec == SelectMasterRecord(st.mst, id, prefix)
      upd == IF rec = NoId THEN TRUE ELSE ~CurrentStatus(st.mst, rec)
      new == NewStreak(st.view[idx].streak, upd)
  IN IF idx = 0 \/ HoleBefore(st.view, idx) \/ (rec = NoId /\ id = NoId) THEN st
     ELSE [tbl |-> UpdateStreak(st.tbl, id, new),
           mst |-> IF rec # NoId THEN UpdateMaster(st.mst, rec, upd, currentDate)
                   ELSE InsertMaster(st.mst, st.seq + 1, id, currentDate),
           seq |-> IF rec # NoId THEN st.seq ELSE st.seq + 1,
           view |-> SetEntry(st.view, idx, upd, new),
           floor |-> st.floor \/ (~upd /\ st.view[idx].streak - 1 < 0)]

(* The completed flag of habit id for the day, as a listing reads it. *)
CompletedOn(mst, id, prefix) ==
  IF SelectMasterRecord(mst, id, prefix) = NoId THEN FALSE
  ELSE CurrentStatus(mst, SelectMasterRecord(mst, id, prefix))

(* C2: from any reachable state with no handler suspended, toggleHabit(h) run
   twice in a row for the same day leaves h's completed flag for that day as it
   was, and leaves h's stored streak as it was unless the decrement hit the
   floor at 0. *)
C2_ToggleTwice ==
  (procs = EmptyBag /\ page \in {"today", "history"}
     /\ (page = "history" => selectedDate # NoDate)) =>
    \A id \in Rendered(View(page)) \ {NoId} :
      LET date == IF page = "today" THEN NowISO ELSE MidnightISO(selectedDate)
          prefix == IF page = "today" THEN DatePrefix(NowISO) ELSE selectedDate
          s0 == [tbl |-> habitsTbl, mst |-> master, seq |-> masterSeq,
                 view |-> View(page), floor |-> FALSE]
          s2 == RunToggle(RunToggle(s0, id, date, prefix), id, date, prefix)
      IN /\ CompletedOn(s2.mst, id, prefix) = CompletedOn(s0.mst, id, prefix)
         /\ ~s2.floor => StoredStreak(s2.tbl, id) = StoredStreak(s0.tbl, id)

(* C3: every toggleHabit call that runs to its end leaves the stored streak of
   its habit at old + 1 when the day's record ends up completed and at
   max(old - 1, 0) when it ends up not completed, old being the stored streak
   when the call started. *)
C3_StreakRule ==
  [][\A p \in Inflight :
       (p.op = "toggle" /\ p.pc = "streak" /\ p.startStreak # NoRow
          /\ ToggleWriteStreak(p) /\ HasRow(habitsTbl, p.id))
       => StoredStreak(habitsTbl', p.id) =
            (IF p.updatedCompleted THEN p.startStreak + 1
             ELSE IF p.startStreak >= 1 THEN p.startStreak - 1 ELSE 0)]_vars

(* C4: for each habit id and each day at most one master record of that habit
   falls on that day. *)
C4_OneRecordPerDay ==
  \A m1 \in master : \A m2 \in master :
    (m1.habit_id = m2.habit_id /\ DatePrefix(m1.date) = DatePrefix(m2.date))
      => m1.id = m2.id

(* C5: once deleteHabit(id) has finished, id is in no listing for any date and
   no master record has habit_id = id; and whenever no handler is suspended,
   every master record refers to a habit row that exists. *)
C5_NoOrphans ==
  /\ \A id \in deletedIds :
       /\ \A m \in master : m.habit_id # id
       /\ \A d \in Days :
            \A e \in Entries(GetHabitsForDate(habitsTbl, master, d)) : e.id # id
  /\ procs = EmptyBag => \A m \in master : HasRow(habitsTbl, m.habit_id)

(* C6: a toggleHabit call for an id that had no row in table habits when it
   was made inserts or updates no master record, writes no streak and changes
   no entry of either array. *)
C6_ToggleOfDeletedAborts ==
  [][\A p \in Inflight :
       (p.op = "toggle" /\ p.startStreak = NoRow
          /\ (ToggleSelect(p) \/ ToggleWriteMaster(p) \/ ToggleWriteStreak(p)))
       => /\ master' = master
          /\ habitsTbl' = habitsTbl
          /\ habits' = habits
          /\ habitsForDate' = habitsForDate]_vars

(* C7: when a store call of a toggleHabit call fails, the store holds either
   both the change of the master record and the matching streak, or neither:
   no failure comes after the master write while the streak is not the one
   that goes with it. *)
C7_ToggleAtomic ==
  [][\A p \in Inflight :
       (p.op = "toggle" /\ p.pc = "streak" /\ StoreFails(p))
       => StoredStreak(habitsTbl', p.id) = p.newStreak]_vars

(* C8: in every toggleHabit implementation the entry of the toggled habit is
   changed only once every store write of that toggle has returned
   successfully, and a toggle whose store write fails leaves the entry's
   completed flag as it was before the call. *)
C8_ViewAfterConfirm ==
  [][/\ \A id \in HabitIds : InlineToggle(id) => inlineHabits' = inlineHabits
     /\ \A p \in Inflight :
          (p.op = "inlineWrite" /\ StoreFails(p) /\ p.id \in InlineRendered)
          => InlineEntry(p.id).completed = ~p.updatedCompleted
     /\ \A p \in Inflight :
          (p.op = "toggle"
             /\ (ToggleSelect(p) \/ ToggleWriteMaster(p) \/ StoreFails(p)))
          => habits' = habits /\ habitsForDate' = habitsForDate]_vars

(* Number of suspended toggleHabit calls for habit id. *)
RECURSIVE CountCopies(_)
CountCopies(S) ==
  IF S = {} THEN 0
  ELSE LET p == CHOOSE q \in S : TRUE IN procs[p] + CountCopies(S \ {p})
TogglesInFlight(id) ==
  CountCopies({ p \in Inflight : p.op = "toggle" /\ p.id = id })

(* C9: at most one toggleHabit call for a given habit is suspended at any time. *)
C9_OneToggleInFlight ==
  \A id \in HabitIds : TogglesInFlight(id) <= 1

(* C10: the INSERT of addHabit adds exactly one row to table habits, with a
   non-empty name free of leading and trailing blanks, streak 0 and an id no
   habit ever had; no master record carries that id, and the habit is listed
   with completed = false for every date. *)
C10_AddHabit ==
  [][\A p \in Inflight :
       (p.op = "add" /\ p.pc = "insert" /\ AddInsert(p))
       => /\ habitsTbl \subseteq habitsTbl'
          /\ Cardinality(habitsTbl' \ habitsTbl) = 1
          /\ \A r \in habitsTbl' \ habitsTbl :
               /\ r.name = p.name /\ r.name # <<>>
               /\ Head(r.name) # Blank /\ r.name[Len(r.name)] # Blank
               /\ r.streak = 0
               /\ r.id \notin assignedIds
               /\ \A q \in habitsTbl : q.id # r.id
               /\ \A m \in master' : m.habit_id # r.id
               /\ \A d \in Days :
                    \E e \in Entries(GetHabitsForDate(habitsTbl', master', d)) :
                      e.id = r.id /\ ~e.completed]_vars

(* addHabit has inserted a row after an earlier habit was deleted. *)
C10_Witness ==
  \E p \in Inflight :
    /\ p.op = "add" /\ p.pc = "selHabits"
    /\ HasRow(habitsTbl, p.id)
    /\ deletedIds # {} /\ master # {}

(* A name that is empty or has nothing but blanks. *)
OnlyBlanks(n) == \A i \in 1..Len(n) : n[i] = Blank

(* C11: an addHabit call with a name that is empty or all blanks starts no
   store call and leaves table habits, its id sequence, table master and the
   today page's array as they were. *)
C11_BlankNameRejected ==
  [][\A n \in NameInputs :
       (OnlyBlanks(n) /\ (AddHabit(n) \/ AddHabitRejected(n)))
       => /\ habitsTbl' = habitsTbl /\ habitSeq' = habitSeq
          /\ master' = master /\ masterSeq' = masterSeq
          /\ habits' = habits
          /\ procs' = procs]_vars

(* addHabit was called with an all-blank name on a store that holds a habit
   and a master record, and has returned. *)
C11_Witness ==
  /\ page = "today"
  /\ newHabitName # <<>> /\ OnlyBlanks(newHabitName)
  /\ habitsTbl # {} /\ master # {} /\ habits # <<>>

(* The array that getHabits / getHabitsForDate has just been assigned to. *)
Listed(pg) == IF pg = "today" THEN habits' ELSE habitsForDate'

(* C12: the list that getHabits / getHabitsForDate returns for day D has exactly
   one entry per row of table habits, with that row's id, name and streak, and
   its completed flag is true exactly when the habit has a master record on day
   D with completed = true (false when it has no record on D). *)
C12_Listing ==
  [][\A p \in Inflight :
       (p.pc = "selMaster" /\ p.home = Mounted /\ p.datePrefix \in Days
          /\ SelectMaster(p))
       => /\ Len(Listed(p.page)) = Cardinality(habitsTbl')
          /\ \A r \in habitsTbl' :
               \E i \in 1..Len(Listed(p.page)) :
                 /\ Listed(p.page)[i].id = r.id
                 /\ Listed(p.page)[i].name = r.name
                 /\ Listed(p.page)[i].streak = r.streak
                 /\ Listed(p.page)[i].completed =
                      (\E m \in MasterOfDay(master', r.id, p.datePrefix) : m.completed)]_vars

(* The master records that are not the ones of habit id on day prefix. *)
OtherRecords(mst, id, prefix) ==
  { m \in mst : m.habit_id # id \/ ~Like(m.date, prefix) }
(* The rows of table habits with the streak of habit id left out of account. *)
ExceptStreakOf(tbl, id) ==
  { IF r.id = id THEN [r EXCEPT !.streak = 0] ELSE r : r \in tbl }

(* C13: no step of a toggleHabit(h) call for day D changes a master record of h
   on another day or a master record of another habit, or adds or removes one;
   in table habits it changes nothing but the streak of h. *)
C13_ToggleFrame ==
  [][\A p \in Inflight :
       (p.op = "toggle"
          /\ (ToggleSelect(p) \/ ToggleWriteMaster(p) \/ ToggleWriteStreak(p)
                \/ StoreFails(p)))
       => /\ OtherRecords(master', p.id, p.datePrefix)
               = OtherRecords(master, p.id, p.datePrefix)
          /\ ExceptStreakOf(habitsTbl', p.id) = ExceptStreakOf(habitsTbl, p.id)]_vars

(* A toggle has written the day's record of its habit while the habit has a
   record on another day. *)
C13_Witness ==
  \E p \in Inflight :
    /\ p.op = "toggle" /\ p.pc = "streak"
    /\ MasterOfDay(master, p.id, p.datePrefix) # {}
    /\ \E m \in OtherRecords(master, p.id, p.datePrefix) : m.habit_id = p.id

(* The entries of a list that carry habit id. *)
EntriesOf(view, id) == { e \in Entries(view) : e.id = id }

(* C14: with operations run one at a time, when a toggleHabit(h) call for day D
   ends after its last store write, the page's array holds one entry for h and
   it is the entry (id, name, streak, completed) that getHabitsForDate(D) builds
   from the store. *)
C14_EntryAsReread ==
  [][\A p \in Inflight :
       (p.op = "toggle" /\ p.pc = "streak" /\ p.home = Mounted
          /\ ToggleWriteStreak(p))
       => /\ EntriesOf(Listed(p.page), p.id) # {}
          /\ EntriesOf(Listed(p.page), p.id) =
               EntriesOf(GetHabitsForDate(habitsTbl', master', p.datePrefix), p.id)]_vars

(* C15: on the history page, whenever no fetch and no toggle is suspended,
   every entry of habitsForDate carries the completed flag that its habit has
   on the selected date. *)
C15_HistoryShowsSelected ==
  (page = "history" /\ selectedDate # NoDate
     /\ ~\E p \in Inflight : p.home = Mounted /\ p.op \in {"mount", "fetch", "toggle"})
    => \A e \in Entries(habitsForDate) :
         e.completed = CompletedOn(master, e.id, selectedDate)

(* C16: on the today page, with operations run one at a time, every
   toggleHabit(h) call that runs to its end leaves the entry of h with the
   opposite of the completed flag it showed before. *)
C16_DisplayedFlagFlips ==
  [][\A p \in Inflight :
       (p.op = "toggle" /\ p.page = "today" /\ p.home = Mounted /\ p.pc = "streak"
          /\ ToggleWriteStreak(p))
       => \A e \in EntriesOf(habits, p.id) :
            \A f \in EntriesOf(habits', p.id) : f.completed = ~e.completed]_vars

(* The master records of habit id, on any day, whose completed flag is true. *)
CompletedRecords(mst, id) == { m \in mst : m.habit_id = id /\ m.completed }

(* C17: with operations run one at a time and no failing store call, between
   operations the stored streak of every habit is the number of its completed
   master records; and a toggle-to-incomplete finds a streak of at least 1 in
   the array, so that max(streak - 1, 0) is streak - 1. *)
C17_StreakCountsCompleted ==
  /\ Idle => \A r \in habitsTbl :
               r.streak = Cardinality(CompletedRecords(master, r.id))
  /\ \A p \in Inflight :
       (p.op = "toggle" /\ p.pc = "streak" /\ ~p.updatedCompleted)
       => /\ ViewOf(p)[p.habitIndex].streak >= 1
          /\ p.newStreak = ViewOf(p)[p.habitIndex].streak - 1

(* Between operations: a habit whose record of some day was toggled off again
   has streak 0, reached by a decrement from 1. *)
C17_Witness ==
  /\ Idle
  /\ \E r \in habitsTbl :
       /\ r.streak = 0
       /\ \E m \in master : m.habit_id = r.id /\ ~m.completed

(* C18: on the today page, the array entry a toggleHabit(id) call reads the old
   streak from, and the entry it replaces, is the entry of habit id; the
   assignment creates no entry whose id is missing. *)
C18_ToggleOwnEntry ==
  [][\A p \in Inflight :
       (p.op = "toggle" /\ p.page = "today" /\ p.home = Mounted)
       => /\ (ToggleWriteMaster(p) /\ Defined(habits, p.habitIndex))
               => habits[p.habitIndex].id = p.id
          /\ ToggleWriteStreak(p)
               => /\ Defined(habits, p.habitIndex)
                  /\ habits[p.habitIndex].id = p.id
                  /\ \A e \in Entries(habits') : e.id # NoId]_vars

====
